---- MODULE Spec2Model ----
(***************************************************************************)
(* TD Sequential / TD Combo indicator passes of graph.py.                  *)
(*                                                                         *)
(* Two specifications share the loop bodies translated below.              *)
(*                                                                         *)
(*   Spec      the two for-loops of calculate_td_sequential and            *)
(*             calculate_td_combo, one iteration per step, run side by     *)
(*             side on the same bars.  An iteration reads four cells of    *)
(*             the input arrays (close[i], close[i-4], high[i-2],          *)
(*             low[i-2]) and the cells at i-1 of the output arrays; the    *)
(*             state keeps exactly the cells the next iteration reads.     *)
(*             The four input cells are drawn afresh at every iteration:   *)
(*             the code puts no constraint between the columns of the      *)
(*             frame, and the closes of different residues modulo 4 are    *)
(*             independent, so every sequence of comparison outcomes is    *)
(*             the one of some series.                                     *)
(*                                                                         *)
(*   SpecPass  the handlers of IBapi: historicalData appends a bar,        *)
(*             historicalDataEnd runs both passes over the whole arrays    *)
(*             and derives the annotations.  The feed delivers either any  *)
(*             short series, or a longer series of trends.                 *)
(*                                                                         *)
(*   SpecFeed  the same handlers under a feed whose timestamps are in any  *)
(*             order.                                                      *)
(***************************************************************************)
EXTENDS Integers, Sequences, FiniteSets

\* ---------------------------------------------------------------- bounds
MaxPrice == 2
MaxLen == 36
MaxBars == 5
MaxTrendBars == 26
MaxTurns == 2
BasePrice == 100
WideRange == 3
MaxFeedBars == 3
ScenarioLen == 20
MaxTime == 1

\* ------------------------------------------------------ program constants
\* the loops start one index too early
LoopStartEarly == 4 - 1
LoopStart == 4
SetupLookback == 4
CountdownLookback == 2
SetupMax == 9
CountdownMax == 13
SetupNoteMin == 6
CountdownNoteMin == 1

Prices == 0..MaxPrice

\* A bar of the feed: close, and a range of 0 or 1 around it for high and low.
Bars == {[close |-> c, high |-> c + r, low |-> c - r] : c \in Prices, r \in 0..1}

Abs(x) == IF x < 0 THEN -x ELSE x
Sign(x) == IF x < 0 THEN -1 ELSE IF x > 0 THEN 1 ELSE 0
Min(a, b) == IF a < b THEN a ELSE b
Max(a, b) == IF a > b THEN a ELSE b

\* np.zeros(len(df)): the value of a cell no iteration has written
Zero == 0

\* ------------------------------------------------------------ loop bodies

\* Variants of the loop bodies with one slip each, used to show that the
\* properties below depend on the code.

\* the clamps at -9 / +9 are missing
SeqSetupStepNoClamp(prev, c, c4) ==
    IF c < c4 THEN (IF prev < 0 THEN prev - 1 ELSE -1)
    ELSE IF c > c4 THEN (IF prev > 0 THEN prev + 1 ELSE 1)
    ELSE 0

\* a tie holds the previous count instead of resetting it
SeqSetupStepTieHolds(prev, c, c4) ==
    IF c < c4
    THEN LET v == IF prev < 0 THEN prev - 1 ELSE -1
         IN  IF v <= -SetupMax THEN -SetupMax ELSE v
    ELSE IF c > c4
    THEN LET v == IF prev > 0 THEN prev + 1 ELSE 1
         IN  IF v >= SetupMax THEN SetupMax ELSE v
    ELSE prev

\* a flip of the bias keeps the magnitude of the run instead of restarting it
SeqSetupStepNoRestart(prev, c, c4) ==
    IF c < c4
    THEN LET v == -(Abs(prev) + 1)
         IN  IF v <= -SetupMax THEN -SetupMax ELSE v
    ELSE IF c > c4
    THEN LET v == Abs(prev) + 1
         IN  IF v >= SetupMax THEN SetupMax ELSE v
    ELSE 0

\* calculate_td_sequential, body of the loop: the value written to
\* setup_count[i], from setup_count[i-1] (prev), close[i] (c), close[i-4] (c4).
\* The loop starts at 4, so the test "i > 0" of the code is always true.
SeqSetupStep(prev, c, c4) ==
    IF c < c4
    THEN LET v == IF prev < 0 THEN prev - 1 ELSE -1
         IN  IF v <= -SetupMax THEN -SetupMax ELSE v
    ELSE IF c > c4
    THEN LET v == IF prev > 0 THEN prev + 1 ELSE 1
         IN  IF v >= SetupMax THEN SetupMax ELSE v
    ELSE 0

\* the buy branch sets the direction of the sell branch
ComboSetupPhaseWrongDir(prev, in_cd, dir, c, c4) ==
    IF ~in_cd
    THEN IF c < c4
         THEN LET v == IF prev < 0 THEN prev - 1 ELSE -1
              IN  IF v <= -SetupMax
                  THEN [setup |-> -SetupMax, in_countdown |-> TRUE, direction |-> 1]
                  ELSE [setup |-> v, in_countdown |-> in_cd, direction |-> dir]
         ELSE IF c > c4
         THEN LET v == IF prev > 0 THEN prev + 1 ELSE 1
              IN  IF v >= SetupMax
                  THEN [setup |-> SetupMax, in_countdown |-> TRUE, direction |-> 1]
                  ELSE [setup |-> v, in_countdown |-> in_cd, direction |-> dir]
         ELSE [setup |-> 0, in_countdown |-> in_cd, direction |-> dir]
    ELSE [setup |-> Zero, in_countdown |-> in_cd, direction |-> dir]

\* the setup recurrence is not suspended during a countdown
ComboSetupPhaseUngated(prev, in_cd, dir, c, c4) ==
    IF c < c4
    THEN LET v == IF prev < 0 THEN prev - 1 ELSE -1
         IN  IF v <= -SetupMax
             THEN [setup |-> -SetupMax, in_countdown |-> TRUE,
                   direction |-> IF in_cd THEN dir ELSE -1]
             ELSE [setup |-> v, in_countdown |-> in_cd, direction |-> dir]
    ELSE IF c > c4
    THEN LET v == IF prev > 0 THEN prev + 1 ELSE 1
         IN  IF v >= SetupMax
             THEN [setup |-> SetupMax, in_countdown |-> TRUE,
                   direction |-> IF in_cd THEN dir ELSE 1]
             ELSE [setup |-> v, in_countdown |-> in_cd, direction |-> dir]
    ELSE [setup |-> 0, in_countdown |-> in_cd, direction |-> dir]

\* a setup completed during a countdown takes the countdown over
ComboSetupPhaseRedirect(prev, in_cd, dir, c, c4) ==
    IF c < c4
    THEN LET v == IF prev < 0 THEN prev - 1 ELSE -1
         IN  IF v <= -SetupMax
             THEN [setup |-> -SetupMax, in_countdown |-> TRUE, direction |-> -1]
             ELSE [setup |-> v, in_countdown |-> in_cd, direction |-> dir]
    ELSE IF c > c4
    THEN LET v == IF prev > 0 THEN prev + 1 ELSE 1
         IN  IF v >= SetupMax
             THEN [setup |-> SetupMax, in_countdown |-> TRUE, direction |-> 1]
             ELSE [setup |-> v, in_countdown |-> in_cd, direction |-> dir]
    ELSE [setup |-> 0, in_countdown |-> in_cd, direction |-> dir]

\* calculate_td_combo, setup phase of the loop body (lines 110-133).
\* st is the state before the iteration; the result has the cell
\* setup_count[i] and the two flags after the phase.  While in_countdown
\* holds the phase is skipped and setup_count[i] keeps its np.zeros value.
ComboSetupPhase(prev, in_cd, dir, c, c4) ==
    IF ~in_cd
    THEN IF c < c4
         THEN LET v == IF prev < 0 THEN prev - 1 ELSE -1
              IN  IF v <= -SetupMax
                  THEN [setup |-> -SetupMax, in_countdown |-> TRUE, direction |-> -1]
                  ELSE [setup |-> v, in_countdown |-> in_cd, direction |-> dir]
         ELSE IF c > c4
         THEN LET v == IF prev > 0 THEN prev + 1 ELSE 1
              IN  IF v >= SetupMax
                  THEN [setup |-> SetupMax, in_countdown |-> TRUE, direction |-> 1]
                  ELSE [setup |-> v, in_countdown |-> in_cd, direction |-> dir]
         ELSE [setup |-> 0, in_countdown |-> in_cd, direction |-> dir]
    ELSE [setup |-> Zero, in_countdown |-> in_cd, direction |-> dir]

\* completion does not clear in_countdown
ComboCountdownPhaseNoClear(prev, in_cd, dir, idx, c, h2, l2) ==
    IF in_cd /\ idx >= CountdownLookback
    THEN LET v == IF dir = 1
                  THEN (IF c > h2 THEN prev + 1 ELSE prev)
                  ELSE (IF c < l2 THEN prev - 1 ELSE prev)
         IN  IF Abs(v) >= CountdownMax
             THEN [countdown |-> CountdownMax * dir, in_countdown |-> in_cd]
             ELSE [countdown |-> v, in_countdown |-> in_cd]
    ELSE [countdown |-> Zero, in_countdown |-> in_cd]

\* completion is tested with > instead of >=
ComboCountdownPhaseStrict(prev, in_cd, dir, idx, c, h2, l2) ==
    IF in_cd /\ idx >= CountdownLookback
    THEN LET v == IF dir = 1
                  THEN (IF c > h2 THEN prev + 1 ELSE prev)
                  ELSE (IF c < l2 THEN prev - 1 ELSE prev)
         IN  IF Abs(v) > CountdownMax
             THEN [countdown |-> CountdownMax * dir, in_countdown |-> FALSE]
             ELSE [countdown |-> v, in_countdown |-> in_cd]
    ELSE [countdown |-> Zero, in_countdown |-> in_cd]

\* the two-bar comparisons are >= and <= instead of > and <
ComboCountdownPhaseGe(prev, in_cd, dir, idx, c, h2, l2) ==
    IF in_cd /\ idx >= CountdownLookback
    THEN LET v == IF dir = 1
                  THEN (IF c >= h2 THEN prev + 1 ELSE prev)
                  ELSE (IF c <= l2 THEN prev - 1 ELSE prev)
         IN  IF Abs(v) >= CountdownMax
             THEN [countdown |-> CountdownMax * dir, in_countdown |-> FALSE]
             ELSE [countdown |-> v, in_countdown |-> in_cd]
    ELSE [countdown |-> Zero, in_countdown |-> in_cd]

\* the sell countdown counts down and the buy countdown counts up
ComboCountdownPhaseSwapped(prev, in_cd, dir, idx, c, h2, l2) ==
    IF in_cd /\ idx >= CountdownLookback
    THEN LET v == IF dir = 1
                  THEN (IF c > h2 THEN prev - 1 ELSE prev)
                  ELSE (IF c < l2 THEN prev + 1 ELSE prev)
         IN  IF Abs(v) >= CountdownMax
             THEN [countdown |-> CountdownMax * dir, in_countdown |-> FALSE]
             ELSE [countdown |-> v, in_countdown |-> in_cd]
    ELSE [countdown |-> Zero, in_countdown |-> in_cd]

\* calculate_td_combo, countdown phase of the loop body (lines 136-149), run
\* with the flags the setup phase of the same iteration left.  prev is
\* countdown_count[i-1]; the result has the cell countdown_count[i] and
\* in_countdown after the iteration.  countdown_direction is not assigned.
ComboCountdownPhase(prev, in_cd, dir, idx, c, h2, l2) ==
    IF in_cd /\ idx >= CountdownLookback
    THEN LET v == IF dir = 1
                  THEN (IF c > h2 THEN prev + 1 ELSE prev)
                  ELSE (IF c < l2 THEN prev - 1 ELSE prev)
         IN  IF Abs(v) >= CountdownMax
             THEN [countdown |-> CountdownMax * dir, in_countdown |-> FALSE]
             ELSE [countdown |-> v, in_countdown |-> in_cd]
    ELSE [countdown |-> Zero, in_countdown |-> in_cd]

\* ------------------------------------------------------- whole-array passes

\* np.zeros(n)
Zeros(n) == [k \in 1..n |-> Zero]

\* arr[k] of Python on a sequence of length n: k counts from 0, a negative k
\* counts from the end, anything else raises IndexError.  A pass returns
\* [error |-> FALSE, value |-> what the code returns], or Raised.
IndexOk(arr, k) == k < Len(arr) /\ k >= -Len(arr)
At(arr, k) == IF k >= 0 THEN arr[k + 1] ELSE arr[Len(arr) + k + 1]
Raised == [error |-> TRUE, value |-> <<>>]
Returned(v) == [error |-> FALSE, value |-> v]

\* calculate_td_sequential: for i in range(LoopStart, len(df)), from idx on.
RECURSIVE SeqLoop(_, _, _)
SeqLoop(close, idx, out) ==
    IF idx >= Len(close) THEN Returned(out)
    ELSE IF ~(IndexOk(close, idx - SetupLookback) /\ IndexOk(out, idx - 1))
    THEN Raised
    ELSE SeqLoop(close, idx + 1,
                 [out EXCEPT ![idx + 1] =
                     SeqSetupStep(At(out, idx - 1), At(close, idx),
                                  At(close, idx - SetupLookback))])

calculate_td_sequential(close) == SeqLoop(close, LoopStart, Zeros(Len(close)))

\* calculate_td_combo: for i in range(LoopStart, len(df)), from idx on; st has
\* the two output arrays and the two flags, and a history of the flags:
\* trace[i] is countdown_direction if in_countdown holds after index i, else 0.
RECURSIVE ComboLoop(_, _, _, _, _)
ComboLoop(close, high, low, idx, st) ==
    IF idx >= Len(close) THEN Returned(st)
    ELSE IF ~(/\ IndexOk(close, idx - SetupLookback)
              /\ IndexOk(high, idx - CountdownLookback)
              /\ IndexOk(st.setup_count, idx - 1))
    THEN Raised
    ELSE LET s == ComboSetupPhase(At(st.setup_count, idx - 1), st.in_countdown,
                                  st.direction, At(close, idx),
                                  At(close, idx - SetupLookback))
             k == ComboCountdownPhase(At(st.countdown_count, idx - 1),
                                      s.in_countdown, s.direction, idx,
                                      At(close, idx),
                                      At(high, idx - CountdownLookback),
                                      At(low, idx - CountdownLookback))
         IN  ComboLoop(close, high, low, idx + 1,
                       [setup_count |-> [st.setup_count EXCEPT ![idx + 1] = s.setup],
                        countdown_count |->
                            [st.countdown_count EXCEPT ![idx + 1] = k.countdown],
                        in_countdown |-> k.in_countdown,
                        direction |-> s.direction,
                        trace |-> [st.trace EXCEPT ![idx + 1] =
                                      IF k.in_countdown THEN s.direction ELSE 0]])

\* calculate_td_combo up to its return statement: the locals at that point
ComboRun(close, high, low) ==
    ComboLoop(close, high, low, LoopStart,
              [setup_count |-> Zeros(Len(close)),
               countdown_count |-> Zeros(Len(close)),
               in_countdown |-> FALSE, direction |-> 0,
               trace |-> Zeros(Len(close))])

\* calculate_td_combo: return setup_count, countdown_count
ComboReturn(run) ==
    IF run.error THEN Raised
    ELSE Returned(<<run.value.setup_count, run.value.countdown_count>>)

calculate_td_combo(close, high, low) == ComboReturn(ComboRun(close, high, low))

\* ------------------------------------------------------------- annotations

\* every bar holding a value is labelled, not only the first
SetupEmittedEveryBar(td, idx) ==
    At(td, idx) # 0 /\ Abs(At(td, idx)) >= SetupNoteMin

\* every change of the count is labelled, also the fall back to 0
CountdownEmittedOnChange(cd, idx) ==
    idx = 0 \/ At(cd, idx) # At(cd, idx - 1)

\* historicalDataEnd, first annotation loop: the test on index idx of td_seq
SetupEmitted(td, idx) ==
    /\ At(td, idx) # 0 /\ Abs(At(td, idx)) >= SetupNoteMin
    /\ (idx = 0 \/ At(td, idx) # At(td, idx - 1))

\* historicalDataEnd, second annotation loop: the test on index idx of
\* td_combo_countdown
CountdownEmitted(cd, idx) ==
    /\ At(cd, idx) # 0 /\ Abs(At(cd, idx)) >= CountdownNoteMin
    /\ (idx = 0 \/ At(cd, idx) # At(cd, idx - 1))

\* the indices 0..n-1 of enumerate(...), in order
Indices(n) == [k \in 1..n |-> k - 1]

\* the dict appended for index idx; y is kept as 1000 * y
\* (High * 1.003, Low * 0.997)
SetupNote(td, high, idx) ==
    [x |-> idx, y1000 |-> At(high, idx) * 1003, text |-> Abs(At(td, idx)),
     color |-> IF At(td, idx) > 0 THEN "red" ELSE "green", kind |-> "bold"]

CountdownNote(cd, low, idx) ==
    [x |-> idx, y1000 |-> At(low, idx) * 997, text |-> Abs(At(cd, idx)),
     color |-> IF At(cd, idx) > 0 THEN "darkred" ELSE "darkgreen",
     kind |-> "italic"]

\* historicalDataEnd, lines 217-248: the list of annotations
Annotations(td, cd, high, low) ==
    LET SetupTest(idx) == SetupEmitted(td, idx)
        CountdownTest(idx) == CountdownEmitted(cd, idx)
        a == SelectSeq(Indices(Len(td)), SetupTest)
        b == SelectSeq(Indices(Len(cd)), CountdownTest)
    IN  [j \in 1..Len(a) |-> SetupNote(td, high, a[j])]
        \o [j \in 1..Len(b) |-> CountdownNote(cd, low, b[j])]

\* ----------------------------------------------------------------- state
VARIABLES
    i,                   \* index of the next iteration of both loops
    td_seq,              \* calculate_td_sequential: setup_count[i-1]
    setup_count,         \* calculate_td_combo: setup_count[i-1]
    countdown_count,     \* calculate_td_combo: countdown_count[i-1]
    in_countdown,        \* calculate_td_combo: in_countdown after index i-1
    countdown_direction, \* calculate_td_combo: countdown_direction after i-1
    obs,                 \* what iteration i-1 read and did (history)
    hist,                \* what the pass did so far (history)
    dates,               \* IBapi: self.dates (timestamps, as bar periods)
    closes, highs, lows, \* IBapi: self.closes, self.highs, self.lows
    feed,                \* the market-data feed: what it delivers next
    pc,                  \* IBapi: "feed" until historicalDataEnd, then "end"
    result               \* historicalDataEnd: td_seq, td_combo_setup,
                         \* td_combo_countdown, annotations; error: the
                         \* exception that left the handler, or "none";
                         \* trace: history of the combo pass

loopvars == <<i, td_seq, setup_count, countdown_count, in_countdown,
              countdown_direction, obs, hist>>
passvars == <<dates, closes, highs, lows, feed, pc, result>>
vars == <<loopvars, passvars>>

\* obs: d4 = sign of close[i] - close[i-4]; above = close[i] > high[i-2];
\* below = close[i] < low[i-2]; was_active = in_countdown when the iteration
\* began; evaluated = the countdown block of the iteration was run.
NoObs == [d4 |-> 0, above |-> FALSE, below |-> FALSE,
          was_active |-> FALSE, evaluated |-> FALSE]

\* hist: seen9 = some index so far has |setup_count| = 9 (combo);
\* entry_setup = setup_count at the latest index where in_countdown went
\* from false to true (0: none yet); after_completion = a countdown completed
\* at an earlier index and setup_count has not clamped since;
\* setup_only = every iteration so far began with in_countdown false;
\* gap = iterations run since countdown_count last reached 13 or -13, counted
\* up to 9 (0: it did in the latest iteration; -1: it never has);
\* all_ties = every iteration so far compared equal closes;
\* alternating = every iteration so far had a nonzero bias, opposite to the
\* one before it.
NoHist == [seen9 |-> FALSE, entry_setup |-> 0, after_completion |-> FALSE,
           setup_only |-> TRUE, gap |-> -1, all_ties |-> TRUE,
           alternating |-> TRUE]

NoResult == [error |-> "none", td_seq |-> <<>>, td_combo_setup |-> <<>>,
             td_combo_countdown |-> <<>>, annotations |-> <<>>, trace |-> <<>>]

\* the feed before its first bar
NoFeed == [mode |-> "none", d |-> 0, r |-> 0, turns |-> 0]

\* IBapi.__init__: empty lists
PassInit ==
    /\ dates = <<>>
    /\ feed = NoFeed
    /\ closes = <<>>
    /\ highs = <<>>
    /\ lows = <<>>
    /\ pc = "feed"
    /\ result = NoResult

LoopInit ==
    /\ i = LoopStart
    /\ td_seq = Zero
    /\ setup_count = Zero
    /\ countdown_count = Zero
    /\ in_countdown = FALSE
    /\ countdown_direction = 0
    /\ obs = NoObs
    /\ hist = NoHist

\* One iteration of both loops at index i, on the cells c = close[i],
\* c4 = close[i-4], h2 = high[i-2], l2 = low[i-2].
Iterate(c, c4, h2, l2) ==
    \E s \in {ComboSetupPhase(setup_count, in_countdown, countdown_direction, c, c4)} :
    \E k \in {ComboCountdownPhase(countdown_count, s.in_countdown, s.direction,
                                  i, c, h2, l2)} :
    LET d   == Sign(c - c4)
        ent == ~in_countdown /\ s.in_countdown
    IN  /\ i < MaxLen
        /\ i' = i + 1
        /\ td_seq' = SeqSetupStep(td_seq, c, c4)
        /\ setup_count' = s.setup
        /\ countdown_count' = k.countdown
        /\ in_countdown' = k.in_countdown
        /\ countdown_direction' = s.direction
        /\ obs' = [d4 |-> d, above |-> c > h2, below |-> c < l2,
                   was_active |-> in_countdown,
                   evaluated |-> s.in_countdown /\ i >= CountdownLookback]
        /\ hist' = [seen9 |-> hist.seen9 \/ Abs(s.setup) = SetupMax,
                    entry_setup |-> IF ent THEN s.setup ELSE hist.entry_setup,
                    after_completion |->
                        /\ Abs(s.setup) # SetupMax
                        /\ (hist.after_completion
                            \/ (obs.evaluated /\ ~in_countdown)),
                    setup_only |-> hist.setup_only /\ ~in_countdown,
                    gap |-> IF /\ Abs(k.countdown) = CountdownMax
                               /\ Abs(countdown_count) < CountdownMax THEN 0
                            ELSE IF hist.gap < 0 THEN hist.gap
                            ELSE Min(hist.gap + 1, SetupMax),
                    all_ties |-> hist.all_ties /\ d = 0,
                    alternating |->
                        /\ hist.alternating
                        /\ d # 0
                        /\ (i > LoopStart => d = -obs.d4)]

\* IBapi.historicalData: one bar of the feed is appended to the lists.
historicalData(bar) ==
    /\ pc = "feed"
    /\ dates' = Append(dates, bar.date)
    /\ closes' = Append(closes, bar.close)
    /\ highs' = Append(highs, bar.high)
    /\ lows' = Append(lows, bar.low)
    /\ UNCHANGED <<pc, result>>

\* IBapi.historicalDataEnd, up to the list of annotations: the frame is built
\* from the lists and both passes are run over it.  An exception of a pass
\* leaves the handler; so does the ValueError of td_seq.min() on an empty
\* array, after both passes have returned.
historicalDataEnd ==
    /\ pc = "feed"
    /\ pc' = "end"
    /\ \E seq \in {calculate_td_sequential(closes)},
          run \in {ComboRun(closes, highs, lows)} :
          LET combo == ComboReturn(run)
          IN  result' =
                  IF seq.error \/ combo.error
                  THEN [NoResult EXCEPT !.error = "IndexError"]
                  ELSE [error |-> IF Len(seq.value) = 0
                                  THEN "ValueError" ELSE "none",
                        td_seq |-> seq.value,
                        td_combo_setup |-> combo.value[1],
                        td_combo_countdown |-> combo.value[2],
                        annotations |->
                            Annotations(seq.value, combo.value[2], highs, lows),
                        trace |-> run.value.trace]
    /\ UNCHANGED <<dates, closes, highs, lows, feed>>

Init == LoopInit /\ PassInit

Next ==
    /\ \E c, c4, h2, l2 \in Prices : Iterate(c, c4, h2, l2)
    /\ UNCHANGED passvars

Spec == Init /\ [][Next]_vars

\* The feed delivers any bar, a short series: timestamps in order.
FreeFeed ==
    /\ feed.mode \in {"none", "free"}
    /\ Len(closes) < MaxBars
    /\ feed' = [NoFeed EXCEPT !.mode = "free"]
    /\ \E bar \in Bars :
           historicalData([date |-> Len(dates), close |-> bar.close,
                           high |-> bar.high, low |-> bar.low])

\* The feed delivers a series of trends: the closes start at BasePrice and
\* rise by one a bar over the first four bars; from then on a bar closes
\* d * SetupLookback above the close four bars before it (d = 1: the closes
\* keep rising by one a bar).  High and low are r around the close, the same
\* r for every bar of a series.  The trend d of a series changes at most
\* MaxTurns times, and not within the first four bars.
TrendFeed ==
    /\ feed.mode \in {"none", "trend"}
    /\ Len(closes) < MaxTrendBars
    /\ \E d \in {-1, 0, 1}, r \in {0, WideRange} :
        LET first == Len(closes) < SetupLookback
            same  == feed.mode = "trend" /\ d = feed.d
            t     == IF feed.mode = "none" \/ same THEN feed.turns
                     ELSE feed.turns + 1
            k    == Len(closes)
            c    == IF k < SetupLookback THEN BasePrice + k
                    ELSE At(closes, k - SetupLookback) + d * SetupLookback
        IN  /\ feed.mode = "trend" => r = feed.r
            /\ first => d = 1 /\ t = feed.turns
            /\ t <= MaxTurns
            /\ feed' = [mode |-> "trend", d |-> d, r |-> r, turns |-> t]
            /\ historicalData([date |-> Len(dates), close |-> c,
                               high |-> c + r, low |-> c - r])

PassNext ==
    /\ \/ FreeFeed
       \/ TrendFeed
       \/ historicalDataEnd
    /\ UNCHANGED loopvars

SpecPass == Init /\ [][PassNext]_vars

\* The feed delivers bars with any timestamp.
AnyOrderFeed ==
    /\ Len(closes) < MaxFeedBars
    /\ feed' = [NoFeed EXCEPT !.mode = "free"]
    /\ \E bar \in Bars, t \in 0..MaxTime :
           historicalData([date |-> t, close |-> bar.close,
                           high |-> bar.high, low |-> bar.low])

FeedNext ==
    /\ \/ AnyOrderFeed
       \/ historicalDataEnd
    /\ UNCHANGED loopvars

SpecFeed == Init /\ [][FeedNext]_vars

\* ------------------------------------------------------------ properties

\* the latest iteration took calculate_td_combo into the countdown
Entered == ~obs.was_active /\ obs.evaluated
\* some iteration has run
Ran == i > LoopStart

\* C1: the setup counts of both passes lie in [-9, 9] and the countdown
\* counts of calculate_td_combo lie in [-13, 13], at every index.
C1_CountsInRange ==
    /\ td_seq \in -SetupMax..SetupMax
    /\ setup_count \in -SetupMax..SetupMax
    /\ countdown_count \in -CountdownMax..CountdownMax

\* a completed sell countdown while the sequential count stands at its floor
C1_Witness == countdown_count = CountdownMax /\ td_seq = -SetupMax

\* C2: in calculate_td_sequential a positive count k followed by a bar with
\* close[i] > close[i-4] gives min(k+1, 9); a negative count k followed by a
\* bar with close[i] < close[i-4] gives max(k-1, -9).
C2_MonotonicRun ==
    [][ /\ (td_seq > 0 /\ obs'.d4 = 1 => td_seq' = Min(td_seq + 1, SetupMax))
        /\ (td_seq < 0 /\ obs'.d4 = -1 => td_seq' = Max(td_seq - 1, -SetupMax))
      ]_vars

\* indices 4..12 all rose (the combo pass entered at 12, the earliest index
\* possible), so the count was 9 at index 12; index 13 rose too: min(10, 9)
C2_Witness ==
    /\ i = LoopStart + 10
    /\ hist.entry_setup = SetupMax
    /\ obs.d4 = 1
    /\ td_seq = SetupMax

\* C3: whenever a countdown is active, or was evaluated at the latest index,
\* some index so far had setup_count = -9 or +9, and countdown_direction is
\* the sign of setup_count at the index where the countdown was entered.
C3_CountdownNeedsSetup ==
    (in_countdown \/ obs.evaluated) =>
        /\ hist.seen9
        /\ Abs(hist.entry_setup) = SetupMax
        /\ countdown_direction = Sign(hist.entry_setup)

\* a buy countdown, several bars after its entry
C3_Witness ==
    /\ in_countdown
    /\ obs.was_active
    /\ countdown_direction = -1
    /\ countdown_count <= -5

\* C4: an index with |countdown_count| = 13 leaves in_countdown false, and
\* from the index after a completion on no countdown step is evaluated before
\* an index at which setup_count clamps to -9 or +9.
C4_NoCountdownAfterCompletion ==
    /\ (Abs(countdown_count) = CountdownMax => ~in_countdown)
    /\ (hist.after_completion => ~in_countdown /\ ~obs.evaluated)

\* eight bars into the next setup after a completion
C4_Witness == hist.after_completion /\ Abs(setup_count) = SetupMax - 1

\* C5 as stated: countdown_count is 0 at the index where the countdown is
\* entered.
C5_Original == Entered => countdown_count = 0

\* C5 amended: the countdown step is evaluated at the entry index itself:
\* countdown_count there is +1 when the direction is +1 and
\* close[i] > high[i-2], -1 when the direction is -1 and close[i] < low[i-2],
\* and 0 otherwise.
C5_EntryCountsAtOnce ==
    Entered =>
        countdown_count =
            IF countdown_direction = 1
            THEN (IF obs.above THEN 1 ELSE 0)
            ELSE (IF obs.below THEN -1 ELSE 0)

\* a sell countdown counts its first bar at the entry index
C5_Witness == Entered /\ countdown_count = 1

\* C6 as stated: at completion the count is 13 times the direction of the
\* countdown, in_countdown is cleared and countdown_direction is reset to 0.
C6_Original ==
    Abs(countdown_count) >= CountdownMax =>
        /\ countdown_count = CountdownMax * Sign(hist.entry_setup)
        /\ ~in_countdown
        /\ countdown_direction = 0

\* C6 amended: at completion the count is 13 times countdown_direction and
\* in_countdown is cleared; countdown_direction keeps the direction of the
\* completed countdown.
C6_CompletionKeepsDirection ==
    Abs(countdown_count) >= CountdownMax =>
        /\ countdown_count = CountdownMax * countdown_direction
        /\ ~in_countdown
        /\ countdown_direction = Sign(hist.entry_setup)
        /\ countdown_direction \in {-1, 1}

\* a buy countdown completes
C6_Witness == countdown_count = -CountdownMax /\ obs.evaluated

\* C7 as stated: at every index the setup_count of calculate_td_combo is the
\* setup_count of calculate_td_sequential.
C7_Original == setup_count = td_seq

\* C7 amended: the two agree at every index up to and including the first
\* countdown entry; at an index that begins with a countdown active the
\* setup phase of calculate_td_combo is skipped and its setup_count is 0.
C7_SetupSuspendedInCountdown ==
    /\ (hist.setup_only => setup_count = td_seq)
    /\ (obs.was_active => setup_count = Zero)

\* the sequential count stands at 9 while the combo count is suspended
C7_Witness == obs.was_active /\ td_seq = SetupMax /\ setup_count = Zero

\* C8: for every series, also of fewer than 4 bars or none, both passes
\* return without an exception, with one cell per bar and setup_count = 0 at
\* every index below 4.
C8_FirstFourZero ==
    pc = "end" =>
        /\ result.error # "IndexError"
        /\ Len(result.td_seq) = Len(closes)
        /\ Len(result.td_combo_setup) = Len(closes)
        /\ \A k \in 0..(SetupLookback - 1) :
               k < Len(closes) =>
                   /\ At(result.td_seq, k) = 0
                   /\ At(result.td_combo_setup, k) = 0

\* a series of three bars
C8_Witness == pc = "end" /\ Len(closes) = SetupLookback - 1

\* C9: a bar with close[i] = close[i-4] sets the sequential count to 0; when
\* every bar so far tied, both counts are 0 and no countdown was activated.
C9_TieResets ==
    /\ (Ran /\ obs.d4 = 0 => td_seq = 0)
    /\ (hist.all_ties =>
            /\ td_seq = 0
            /\ setup_count = 0
            /\ countdown_count = 0
            /\ ~in_countdown
            /\ ~hist.seen9
            /\ hist.entry_setup = 0)

\* indices 4..12 all rose, so the count was 9 at index 12; index 13 ties
C9_Witness ==
    /\ i = LoopStart + 10
    /\ hist.entry_setup = SetupMax
    /\ obs.d4 = 0
    /\ td_seq = 0

\* C10: while the bias has been nonzero and opposite to the previous one at
\* every index, both setup counts have magnitude at most 1, no index reached
\* -9 or +9 and no countdown was activated.
C10_AlternatingStaysSmall ==
    hist.alternating =>
        /\ Abs(td_seq) <= 1
        /\ Abs(setup_count) <= 1
        /\ ~hist.seen9
        /\ ~in_countdown
        /\ hist.entry_setup = 0
        /\ countdown_count = 0

\* twenty bars of alternation
C10_Witness == hist.alternating /\ i >= LoopStart + 20 /\ td_seq = -1

\* ------------------------------------------- properties of the whole passes

\* the handler ran both passes and derived the annotations
Ended == pc = "end" /\ result.error = "none"
\* the series of the scenario: ScenarioLen bars closing at 100, 101, ...
RisingCloses == [k \in 1..ScenarioLen |-> BasePrice + k - 1]
\* the first index at which a setup can complete
FirstEntry == LoopStart + SetupMax - 1
\* an annotation of the given style is in the list for index idx
HasNote(kind, idx) ==
    \E j \in 1..Len(result.annotations) :
        result.annotations[j].kind = kind /\ result.annotations[j].x = idx
NotesOf(kind) ==
    LET Test(a) == a.kind = kind IN SelectSeq(result.annotations, Test)

\* C11 as stated: on the rising series the setup_count of the combo pass is
\* 1, 2, ..., 9 at indices 4..12 and stays 9 from 13 to the last index, and a
\* sell countdown is active from index 12 to the last index.
C11_Original ==
    Ended /\ closes = RisingCloses =>
        /\ \A idx \in LoopStart..FirstEntry :
               At(result.td_combo_setup, idx) = idx - LoopStart + 1
        /\ \A idx \in (FirstEntry + 1)..(ScenarioLen - 1) :
               At(result.td_combo_setup, idx) = SetupMax
        /\ \A idx \in FirstEntry..(ScenarioLen - 1) : At(result.trace, idx) = 1

\* C11 amended: on the rising series the setup_count of the combo pass is
\* 1, 2, ..., 9 at indices 4..12 and 0 from 13 to the last index (the setup
\* phase is skipped during the countdown; the sequential pass stays at 9),
\* and a sell countdown is active from index 12 to the last index.
C11_RisingScenario ==
    Ended /\ closes = RisingCloses =>
        /\ \A idx \in LoopStart..FirstEntry :
               /\ At(result.td_combo_setup, idx) = idx - LoopStart + 1
               /\ At(result.td_seq, idx) = idx - LoopStart + 1
        /\ \A idx \in (FirstEntry + 1)..(ScenarioLen - 1) :
               /\ At(result.td_combo_setup, idx) = Zero
               /\ At(result.td_seq, idx) = SetupMax
        /\ \A idx \in FirstEntry..(ScenarioLen - 1) : At(result.trace, idx) = 1

\* the rising series with tight bars: every bar from index 12 on counts
C11_Witness ==
    /\ Ended
    /\ closes = RisingCloses
    /\ At(result.td_combo_countdown, ScenarioLen - 1) = ScenarioLen - FirstEntry

\* C12: a setup annotation is in the list for index idx exactly when td_seq
\* there is nonzero, of magnitude 6 or more, and idx is 0 or the value differs
\* from the one before; no index is labelled twice, and a bar that holds the
\* 9 of the bar before it is not labelled.
C12_SetupAnnotations ==
    Ended =>
        LET td == result.td_seq
            Emit(idx) == /\ td[idx + 1] # 0
                         /\ Abs(td[idx + 1]) >= SetupNoteMin
                         /\ (idx = 0 \/ td[idx + 1] # td[idx])
        IN  /\ \A idx \in 0..(Len(td) - 1) : HasNote("bold", idx) <=> Emit(idx)
            /\ Len(NotesOf("bold")) =
                   Cardinality({idx \in 0..(Len(td) - 1) : Emit(idx)})
            /\ \A idx \in 1..(Len(td) - 1) :
                   Abs(td[idx + 1]) = SetupMax /\ td[idx] = td[idx + 1]
                       => ~HasNote("bold", idx)

\* a run clamped at 9 over indices 12 and 13, labelled at 12 only
C12_Witness ==
    /\ Ended
    /\ Len(closes) > FirstEntry + 1
    /\ At(result.td_seq, FirstEntry) = SetupMax
    /\ At(result.td_seq, FirstEntry + 1) = SetupMax
    /\ HasNote("bold", FirstEntry)
    /\ ~HasNote("bold", FirstEntry + 1)

\* C13: a countdown annotation is in the list for index idx exactly when
\* td_combo_countdown there is nonzero and idx is 0 or the value differs from
\* the one before; no index is labelled twice, and the index after a
\* completion, where the count is 0 again, is not labelled.
C13_CountdownAnnotations ==
    Ended =>
        LET cd == result.td_combo_countdown
            Emit(idx) == /\ cd[idx + 1] # 0
                         /\ (idx = 0 \/ cd[idx + 1] # cd[idx])
        IN  /\ \A idx \in 0..(Len(cd) - 1) : HasNote("italic", idx) <=> Emit(idx)
            /\ Len(NotesOf("italic")) =
                   Cardinality({idx \in 0..(Len(cd) - 1) : Emit(idx)})
            /\ \A idx \in 1..(Len(cd) - 1) :
                   Abs(cd[idx]) = CountdownMax =>
                       cd[idx + 1] = 0 /\ ~HasNote("italic", idx)

\* a completion followed by one more bar
C13_Witness ==
    /\ Ended
    /\ \E idx \in 1..(Len(closes) - 1) :
           /\ At(result.td_combo_countdown, idx - 1) = CountdownMax
           /\ At(result.td_combo_countdown, idx) = 0
           /\ HasNote("italic", idx - 1)
           /\ ~HasNote("italic", idx)

\* C14 as stated: a bar whose timestamp is not strictly greater than that of
\* the bar before it is rejected and leaves the state unchanged, so the
\* stored timestamps are strictly increasing at all times.
C14_OutOfOrderRejected ==
    \A k \in 1..(Len(dates) - 1) : dates[k] < dates[k + 1]

\* the last index (counted from 1) at which arr holds magnitude mag, 0 if none
LastIndexOf(arr, mag) ==
    LET hits == {k \in 1..Len(arr) : Abs(arr[k]) = mag}
    IN  IF hits = {} THEN 0 ELSE CHOOSE k \in hits : \A j \in hits : j <= k
\* read from the returned arrays alone: a setup reached 9 after the last 13
OpenInResult ==
    LastIndexOf(result.td_combo_setup, SetupMax) >
        LastIndexOf(result.td_combo_countdown, CountdownMax)

\* C15: the arrays returned by calculate_td_combo tell whether a countdown is
\* still active after the last bar: it is active exactly when setup_count
\* holds a 9 or -9 later than every 13 or -13 of countdown_count, so no result
\* of a series that ends in a countdown equals a result of one that does not.
C15_OpenCountdownVisible ==
    Ended => (At(result.trace, Len(closes) - 1) # 0 <=> OpenInResult)

\* a countdown open at the last bar in which no bar has counted yet
C15_Witness ==
    /\ Ended
    /\ At(result.trace, Len(closes) - 1) # 0
    /\ \A k \in 1..Len(closes) : result.td_combo_countdown[k] = 0
    /\ Len(closes) > FirstEntry + 1

\* ------------------------------------------ properties of the countdown run

\* C17: at every index where the countdown phase runs, with direction +1
\* countdown_count[i] is countdown_count[i-1] + 1 if close[i] > high[i-2] and
\* countdown_count[i-1] otherwise; with direction -1 it is
\* countdown_count[i-1] - 1 if close[i] < low[i-2] and countdown_count[i-1]
\* otherwise; so the magnitude never decreases and grows by at most 1 a bar.
C17_CountdownStep ==
    [][obs'.evaluated =>
          /\ countdown_direction' = 1 =>
                 countdown_count' =
                     countdown_count + (IF obs'.above THEN 1 ELSE 0)
          /\ countdown_direction' = -1 =>
                 countdown_count' =
                     countdown_count - (IF obs'.below THEN 1 ELSE 0)
          /\ Abs(countdown_count') >= Abs(countdown_count)
          /\ Abs(countdown_count') <= Abs(countdown_count) + 1]_vars

\* a buy countdown that has counted before counts one more bar
C17_Witness ==
    /\ obs.evaluated
    /\ obs.was_active
    /\ countdown_direction = -1
    /\ obs.below
    /\ countdown_count = -3

\* C18: countdown_direction is -1, 0 or 1, and a nonzero countdown_count[i]
\* has the sign of countdown_direction as it is after index i.
C18_SignFollowsDirection ==
    /\ countdown_direction \in {-1, 0, 1}
    /\ countdown_count # 0 => Sign(countdown_count) = countdown_direction

\* a buy countdown in progress with a negative count, after an earlier sell
\* countdown has completed
C18_Witness ==
    /\ in_countdown
    /\ countdown_direction = -1
    /\ countdown_count < -1
    /\ hist.gap > 0

\* C19: an active countdown is neither cancelled nor redirected: after every
\* further index it is still active with the same direction, or that index
\* brought |countdown_count| to 13; bars of the opposite bias, nine or more of
\* them, change nothing.
C19_CountdownNotCancelled ==
    [][in_countdown =>
          /\ countdown_direction' = countdown_direction
          /\ in_countdown' \/ Abs(countdown_count') = CountdownMax]_vars

\* a sell countdown still active after nine bars in a row of the opposite
\* bias (the sequential pass has counted them to -9)
C19_Witness ==
    /\ in_countdown
    /\ obs.was_active
    /\ countdown_direction = 1
    /\ td_seq = -SetupMax
    /\ Abs(countdown_count) < CountdownMax

\* C20: countdown_count[i] is nonzero only at indices from an entry through
\* the completion: it is 0 at every index below 12, 0 at the index after a
\* completion and 0 from there until the next entry, which comes no sooner
\* than 9 indices after the completion.
C20_CountdownOnlyWhileActive ==
    /\ countdown_count # 0 => obs.evaluated
    /\ Ran /\ i - 1 < SetupLookback + SetupMax - 1 =>
           countdown_count = 0 /\ ~in_countdown
    /\ hist.gap > 0 /\ hist.gap < SetupMax =>
           countdown_count = 0 /\ ~in_countdown /\ ~obs.evaluated
    /\ hist.gap > 0 /\ obs.evaluated => hist.gap >= SetupMax

\* a second countdown counts, entered nine or more indices after the first
\* one completed
C20_Witness ==
    /\ hist.gap >= SetupMax
    /\ obs.evaluated
    /\ countdown_count # 0

====
